---- MODULE Spec2Model ----
(***************************************************************************)
(* Model of the grid path planner of AI/Path_planner/api.py: the /plan     *)
(* handler `plan` and the search `astar` it calls.                         *)
(*                                                                         *)
(* Numbers.  A raw request coordinate is an integer count of 1e-7 degrees; *)
(* a cell coordinate (a float rounded to 6 decimals) is an integer count   *)
(* of 1e-6 degrees.  round(x, 6) is Round6.  Costs f = ng + h mix steps    *)
(* (ng, one per move) and degrees (h); they are kept exactly, as integer   *)
(* counts of 1e-6, so one step of cost is Unit.                            *)
(***************************************************************************)
EXTENDS Integers, Sequences, FiniteSets, Bags, TLC

\* ---------------------------------------------------------------- bounds
\* The search is followed until it pops a cell MaxG steps away from start.
MaxG == 4
\* Largest number of blocked cells a request adds to a layout.
MaxExtra == 2

\* ------------------------------------------------------------- constants
\* 1e-3 degrees, the pitch added to a coordinate, in raw units (1e-7).
Pitch == 10000
\* One unit of cost (one move), counted in 1e-6: f = ng + h.
Unit == 1000000

None == <<>>

\* round(x, 6) of a raw value that is not half-way between two cells.
Round6(r) == (r + 5) \div 10

\* A cell coordinate as the raw value the float stands for.
Raw(c) == c * 10

Abs(x) == IF x < 0 THEN -x ELSE x

\* h(a, b) of astar, in 1e-6 degrees.
h(a, b) == Abs(a[1] - b[1]) + Abs(a[2] - b[2])

\* Dirs with a diagonal move in place of (0,-1).
DirsDiagonal == << <<1, 0>>, <<-1, 0>>, <<0, 1>>, <<1, 1>> >>

\* The (dx, dy) list of the for loop.
Dirs == << <<1, 0>>, <<-1, 0>>, <<0, 1>>, <<0, -1>> >>

\* nb = (round(cur[0]+dx*1e-3,6), round(cur[1]+dy*1e-3,6))
Neighbor(cur, d) ==
  << Round6(Raw(cur[1]) + d[1] * Pitch), Round6(Raw(cur[2]) + d[2] * Pitch) >>

\* (round(p[0],6), round(p[1],6))
RoundPair(p) == << Round6(p[1]), Round6(p[2]) >>

\* ---------------------------------------------------------------- inputs
RawStarts == { <<0, 0>>, <<5001, -9999>> }

\* Goal offsets from the raw start, in raw units.
GoalOffsets ==
  { <<0, 0>>, <<3, -4>>, <<0, 10000>>, <<0, 20000>>, <<20000, 0>>,
    <<10000, 10000>>, <<30000, 10000>>, <<5000, 0>> }

\* Offsets of the candidate blocked cells from the raw start, in raw units.
BlockedOffsets ==
  { <<-4, 2>>, <<10000, 0>>, <<0, 10000>>, <<0, -10000>>,
    <<10002, 9999>>, <<20000, 10000>> }

Shift(s, o) == << s[1] + o[1], s[2] + o[2] >>

\* The four raw points one pitch away from p.
Ring(p) ==
  { Shift(p, <<Pitch, 0>>), Shift(p, <<-Pitch, 0>>),
    Shift(p, <<0, Pitch>>), Shift(p, <<0, -Pitch>>) }

\* Blocked layouts of a request: nothing, start walled in, goal walled in,
\* goal blocked.
Layout(name, s, gl) ==
  CASE name = "none"  -> {}
    [] name = "start" -> Ring(s)
    [] name = "goal"  -> Ring(gl)
    [] name = "at"    -> {gl}

Requests ==
  { [start |-> s, goal |-> Shift(s, go),
     blocked |-> Layout(lay, s, Shift(s, go)) \cup { Shift(s, o) : o \in bo }] :
      s \in RawStarts, go \in GoalOffsets,
      bo \in { b \in SUBSET BlockedOffsets : Cardinality(b) <= MaxExtra },
      lay \in { "none", "start", "goal", "at" } }

\* The orders in which the float sums of entries of equal exact f may fall.
TieOrders == { "xy", "yx", "-xy", "-yx" }

\* ----------------------------------------------------------------- state
VARIABLES
  req,      \* the PlanRequest
  tie,      \* the order among heap entries of equal exact f
  pc,       \* "request", "search", "done" (path returned), "nopath" (400),
            \* "beyond" (still searching, past the modelled horizon)
  start, goal, blocked,   \* the arguments of astar
  openq,    \* the heap, a bag of <<f, cell>>
  came,     \* back-links
  g,        \* costs
  path,     \* the value astar returned
  npush,    \* how many times each cell was pushed on openq
  pops      \* how many times the while loop popped an entry

vars == << req, tie, pc, start, goal, blocked, openq, came, g, path, npush, pops >>

Init ==
  /\ req \in Requests
  /\ tie \in TieOrders
  /\ pc = "request"
  /\ start = None /\ goal = None /\ blocked = {}
  /\ openq = EmptyBag
  /\ came = << >>
  /\ g = << >>
  /\ path = << >>
  /\ npush = << >>
  /\ pops = 0

\* plan that pushes no start that is blocked.
PlanSkipsBlockedStart ==
  /\ pc = "request"
  /\ LET s == RoundPair(req.start)
         bl == { RoundPair(b) : b \in req.blocked } IN
       /\ start' = s
       /\ goal' = RoundPair(req.goal)
       /\ blocked' = bl
       /\ openq' = IF s \in bl THEN EmptyBag ELSE SetToBag({ <<0, s>> })
       /\ came' = (s :> None)
       /\ g' = (s :> 0)
       /\ npush' = (s :> 1)
  /\ pc' = "search"
  /\ UNCHANGED << req, tie, path, pops >>

\* plan, up to the first test of the while loop of astar.
Plan ==
  /\ pc = "request"
  /\ LET s == RoundPair(req.start) IN
       /\ start' = s
       /\ goal' = RoundPair(req.goal)
       /\ blocked' = { RoundPair(b) : b \in req.blocked }
       /\ openq' = SetToBag({ <<0, s>> })
       /\ came' = (s :> None)
       /\ g' = (s :> 0)
       /\ npush' = (s :> 1)
  /\ pc' = "search"
  /\ UNCHANGED << req, tie, path, pops >>

Lex(a1, a2, b1, b2) == a1 < b1 \/ (a1 = b1 /\ a2 < b2)

\* Cell a comes before cell b in the order tie.
Before(a, b) ==
  CASE tie = "xy"  -> Lex(a[1], a[2], b[1], b[2])
    [] tie = "yx"  -> Lex(a[2], a[1], b[2], b[1])
    [] tie = "-xy" -> Lex(b[1], b[2], a[1], a[2])
    [] tie = "-yx" -> Lex(b[2], b[1], a[2], a[1])

\* The entry heappop returns.  Entries are ordered by f first.  Entries whose
\* exact f is equal are ordered by the last bits of the float sum ng + h,
\* which differ from cell to cell, and by the cell when the floats are equal
\* too ("xy" is the order of the tuples).
First(q) ==
  CHOOSE e \in BagToSet(q) :
    \A e2 \in BagToSet(q) :
      e2 = e \/ e[1] < e2[1] \/ (e[1] = e2[1] /\ Before(e[2], e2[2]))

\* Relax without the test of the blocked set.
RelaxIntoBlocked(st, cur, d) ==
  LET nb == Neighbor(cur, d)
      ng == st.g[cur] + 1
  IN IF nb \notin DOMAIN st.g \/ ng < st.g[nb]
     THEN [ g     |-> [ x \in DOMAIN st.g \cup {nb} |-> IF x = nb THEN ng ELSE st.g[x] ],
            came  |-> [ x \in DOMAIN st.came \cup {nb} |-> IF x = nb THEN cur ELSE st.came[x] ],
            openq |-> st.openq (+) SetToBag({ << ng * Unit + h(nb, goal), nb >> }),
            npush |-> [ x \in DOMAIN st.npush \cup {nb} |->
                          IF x = nb
                          THEN (IF nb \in DOMAIN st.npush THEN st.npush[nb] ELSE 0) + 1
                          ELSE st.npush[x] ] ]
     ELSE st


\* Relax without the test of the recorded cost.
RelaxAlways(st, cur, d) ==
  LET nb == Neighbor(cur, d)
      ng == st.g[cur] + 1
  IN IF nb \in blocked THEN st
     ELSE IF TRUE
     THEN [ g     |-> [ x \in DOMAIN st.g \cup {nb} |-> IF x = nb THEN ng ELSE st.g[x] ],
            came  |-> [ x \in DOMAIN st.came \cup {nb} |-> IF x = nb THEN cur ELSE st.came[x] ],
            openq |-> st.openq (+) SetToBag({ << ng * Unit + h(nb, goal), nb >> }),
            npush |-> [ x \in DOMAIN st.npush \cup {nb} |->
                          IF x = nb
                          THEN (IF nb \in DOMAIN st.npush THEN st.npush[nb] ELSE 0) + 1
                          ELSE st.npush[x] ] ]
     ELSE st


\* Relax with ng <= g[nb] for ng < g[nb].
RelaxLe(st, cur, d) ==
  LET nb == Neighbor(cur, d)
      ng == st.g[cur] + 1
  IN IF nb \in blocked THEN st
     ELSE IF nb \notin DOMAIN st.g \/ ng <= st.g[nb]
     THEN [ g     |-> [ x \in DOMAIN st.g \cup {nb} |-> IF x = nb THEN ng ELSE st.g[x] ],
            came  |-> [ x \in DOMAIN st.came \cup {nb} |-> IF x = nb THEN cur ELSE st.came[x] ],
            openq |-> st.openq (+) SetToBag({ << ng * Unit + h(nb, goal), nb >> }),
            npush |-> [ x \in DOMAIN st.npush \cup {nb} |->
                          IF x = nb
                          THEN (IF nb \in DOMAIN st.npush THEN st.npush[nb] ELSE 0) + 1
                          ELSE st.npush[x] ] ]
     ELSE st


\* Relax with f = h(nb, goal), the cost so far left out.
RelaxGreedy(st, cur, d) ==
  LET nb == Neighbor(cur, d)
      ng == st.g[cur] + 1
  IN IF nb \in blocked THEN st
     ELSE IF nb \notin DOMAIN st.g \/ ng < st.g[nb]
     THEN [ g     |-> [ x \in DOMAIN st.g \cup {nb} |-> IF x = nb THEN ng ELSE st.g[x] ],
            came  |-> [ x \in DOMAIN st.came \cup {nb} |-> IF x = nb THEN cur ELSE st.came[x] ],
            openq |-> st.openq (+) SetToBag({ << h(nb, goal), nb >> }),
            npush |-> [ x \in DOMAIN st.npush \cup {nb} |->
                          IF x = nb
                          THEN (IF nb \in DOMAIN st.npush THEN st.npush[nb] ELSE 0) + 1
                          ELSE st.npush[x] ] ]
     ELSE st


\* One pass of the body of the for loop, on the tables st.
Relax(st, cur, d) ==
  LET nb == Neighbor(cur, d)
      ng == st.g[cur] + 1
  IN IF nb \in blocked THEN st
     ELSE IF nb \notin DOMAIN st.g \/ ng < st.g[nb]
     THEN [ g     |-> [ x \in DOMAIN st.g \cup {nb} |-> IF x = nb THEN ng ELSE st.g[x] ],
            came  |-> [ x \in DOMAIN st.came \cup {nb} |-> IF x = nb THEN cur ELSE st.came[x] ],
            openq |-> st.openq (+) SetToBag({ << ng * Unit + h(nb, goal), nb >> }),
            npush |-> [ x \in DOMAIN st.npush \cup {nb} |->
                          IF x = nb
                          THEN (IF nb \in DOMAIN st.npush THEN st.npush[nb] ELSE 0) + 1
                          ELSE st.npush[x] ] ]
     ELSE st

\* The for loop over the first k directions.
RECURSIVE ForDirs(_, _, _)
ForDirs(st, cur, k) ==
  IF k = 0 THEN st ELSE Relax(ForDirs(st, cur, k - 1), cur, Dirs[k])

\* WalkBack that stops at the cell without a back-link and leaves it out.
RECURSIVE WalkBackOmitsStart(_, _, _)
WalkBackOmitsStart(cm, c, n) ==
  IF cm[c] = None \/ n = 0 THEN << >>
  ELSE << c >> \o WalkBackOmitsStart(cm, cm[c], n - 1)

\* The inner while loop: the cells from c back along the links, c first.
\* n bounds the walk.
RECURSIVE WalkBack(_, _, _)
WalkBack(cm, c, n) ==
  IF c = None \/ n = 0 THEN << >> ELSE << c >> \o WalkBack(cm, cm[c], n - 1)

\* The path as the walk built it, goal first.
NotReversed(p) == p

\* list(reversed(path))
Reversed(p) == [ k \in 1..Len(p) |-> p[Len(p) + 1 - k] ]

\* An iteration that pops the goal: astar returns the path, plan responds.
Found ==
  /\ pc = "search"
  /\ openq # EmptyBag
  /\ LET e == First(openq) IN
       /\ e[2] = goal
       /\ openq' = openq (-) SetToBag({e})
       /\ path' = Reversed(WalkBack(came, e[2], Cardinality(DOMAIN came) + 1))
  /\ pops' = pops + 1
  /\ pc' = "done"
  /\ UNCHANGED << req, tie, start, goal, blocked, came, g, npush >>

\* An iteration that pops another cell and looks at its four neighbours.
Expand ==
  /\ pc = "search"
  /\ openq # EmptyBag
  /\ LET e == First(openq) IN
       /\ e[2] # goal
       /\ g[e[2]] < MaxG
       /\ LET st == ForDirs([ g |-> g, came |-> came, npush |-> npush,
                              openq |-> openq (-) SetToBag({e}) ], e[2], Len(Dirs))
          IN /\ openq' = st.openq
             /\ came' = st.came
             /\ g' = st.g
             /\ npush' = st.npush
  /\ pops' = pops + 1
  /\ UNCHANGED << req, tie, pc, start, goal, blocked, path >>

\* The heap is empty: astar returns [], plan raises the 400 'no path'.
NotFound ==
  /\ pc = "search"
  /\ openq = EmptyBag
  /\ path' = << >>
  /\ pc' = "nopath"
  /\ UNCHANGED << req, tie, start, goal, blocked, openq, came, g, npush, pops >>

\* The search pops a cell MaxG steps from start that is not the goal: it
\* goes on, and is not followed further.
Beyond ==
  /\ pc = "search"
  /\ openq # EmptyBag
  /\ LET e == First(openq) IN e[2] # goal /\ g[e[2]] >= MaxG
  /\ pc' = "beyond"
  /\ UNCHANGED << req, tie, start, goal, blocked, openq, came, g, path, npush, pops >>

Next == Plan \/ Found \/ Expand \/ NotFound \/ Beyond

Spec == Init /\ [][Next]_vars

\* ------------------------------------------------------------ vocabulary
\* The pitch between two cells, in cell units.
CellPitch == Round6(Pitch)

FrontierCells == { e[2] : e \in BagToSet(openq) }

PathCells == { path[k] : k \in 1..Len(path) }

\* goal = start + (i * pitch, j * pitch) for integers i, j.
Aligned ==
  /\ (goal[1] - start[1]) % CellPitch = 0
  /\ (goal[2] - start[2]) % CellPitch = 0

\* |i| + |j|
Manhattan == h(start, goal) \div CellPitch

Between(x, a, b) == (a <= x /\ x <= b) \/ (b <= x /\ x <= a)

InRect(c) == Between(c[1], start[1], goal[1]) /\ Between(c[2], start[2], goal[2])

\* One pitch along exactly one axis.
OneStep(a, b) ==
  \/ Abs(a[1] - b[1]) = CellPitch /\ a[2] = b[2]
  \/ a[1] = b[1] /\ Abs(a[2] - b[2]) = CellPitch

Adjacent(c) ==
  { <<c[1] + CellPitch, c[2]>>, <<c[1] - CellPitch, c[2]>>,
    <<c[1], c[2] + CellPitch>>, <<c[1], c[2] - CellPitch>> }

\* Breadth-first reference search: the number of moves of a shortest walk
\* from start to goal through cells that are not blocked, -1 when there is
\* none of at most MaxG moves.
RECURSIVE BFS(_, _, _)
BFS(front, seen, k) ==
  IF goal \in front THEN k
  ELSE IF front = {} \/ k >= MaxG THEN -1
  ELSE LET nxt == { n \in UNION { Adjacent(c) : c \in front } :
                      n \notin seen /\ n \notin blocked }
       IN BFS(nxt, seen \cup nxt, k + 1)

Dist == BFS({start}, {start}, 0)

\* The number of cells at most d moves away from a cell.
CellsWithin(d) == 2 * d * (d + 1) + 1

\* A cell lies outside the smallest rectangle around goal and the blocked
\* cells: from there the lattice is free for ever in one direction.
Outside(c) ==
  \E i \in 1..2 :
    \/ \A b \in blocked \cup {goal} : c[i] > b[i]
    \/ \A b \in blocked \cup {goal} : c[i] < b[i]

\* When the search passes the horizon, a cell outside that rectangle is on
\* the frontier: the frontier never empties.
BeyondHasEscaped == pc = "beyond" => \E c \in FrontierCells : Outside(c)

\* goal cannot be entered.
GoalShut == goal \in blocked \/ Adjacent(goal) \subseteq blocked

\* c is linked to start by at most n back-links.
RECURSIVE Climbs(_, _)
Climbs(c, n) ==
  IF c = start THEN TRUE
  ELSE IF n = 0 \/ c \notin DOMAIN came THEN FALSE
  ELSE Climbs(came[c], n - 1)

\* ---------------------------------------------------------------- claims
\* C1 (as stated): no cell of the blocked set is ever a key of the cost or
\* back-link table, an entry of the frontier, or an element of the returned
\* path.
C1_NoBlockedCellRecorded ==
  \A b \in blocked :
    /\ b \notin DOMAIN g
    /\ b \notin DOMAIN came
    /\ b \notin FrontierCells
    /\ b \notin PathCells

\* C1 (amended): no cell of the blocked set other than start is ever a key of
\* the cost or back-link table, an entry of the frontier, or an element of
\* the returned path.
C1_NoBlockedCellButStartRecorded ==
  \A b \in blocked \ {start} :
    /\ b \notin DOMAIN g
    /\ b \notin DOMAIN came
    /\ b \notin FrontierCells
    /\ b \notin PathCells

\* A path of several cells was returned from a blocked start, past a blocked
\* cell next to the path.
C1_Witness ==
  /\ pc = "done"
  /\ Len(path) > 2
  /\ start \in blocked
  /\ \E c \in PathCells : Adjacent(c) \cap (blocked \ {start}) # {}

\* C2: when goal is not start and goal is blocked or its four neighbours are
\* blocked, the call to astar returns the empty path and plan fails with
\* 'no path'.
C2_ShutGoalReturnsNotFound ==
  (pc \notin { "request", "search" } /\ goal # start /\ GoalShut) =>
    (pc = "nopath" /\ path = << >>)

\* C3: when goal is not a whole number of pitches away from start on both
\* axes, the call to astar returns the empty path.
C3_UnalignedGoalReturnsNotFound ==
  (pc \notin { "request", "search" } /\ ~Aligned) =>
    (pc = "nopath" /\ path = << >>)

\* C4: when goal is start + (i * pitch, j * pitch) and no blocked cell lies in
\* the rectangle spanned by start and goal, astar returns a path of exactly
\* |i| + |j| steps, |i| + |j| + 1 cells.
C4_FreeRectangleGivesManhattanPath ==
  (pc # "request" /\ Aligned /\ \A b \in blocked : ~InRect(b)) =>
    /\ pc \notin { "nopath", "beyond" }
    /\ pc = "done" => Len(path) = Manhattan + 1

\* A path of three or more steps was returned with blocked cells around a
\* free rectangle.
C4_Witness ==
  /\ pc = "done"
  /\ Aligned
  /\ blocked # {}
  /\ \A b \in blocked : ~InRect(b)
  /\ Manhattan >= 3
  /\ start[1] # goal[1] /\ start[2] # goal[2]

\* C5: consecutive elements of a returned path differ by exactly one pitch
\* along exactly one axis and by nothing along the other.
C5_PathMovesOnePitchOnOneAxis ==
  pc = "done" => \A k \in 1..(Len(path) - 1) : OneStep(path[k], path[k + 1])

\* A returned path that turns: it moves along both axes.
C5_Witness ==
  /\ pc = "done"
  /\ Len(path) >= 4
  /\ \E k \in 1..(Len(path) - 1) : path[k][1] # path[k + 1][1]
  /\ \E k \in 1..(Len(path) - 1) : path[k][2] # path[k + 1][2]

\* C6: a returned path starts with the rounded start and ends with the
\* rounded goal.
C6_PathRunsFromStartToGoal ==
  pc = "done" =>
    /\ Len(path) >= 1
    /\ path[1] = RoundPair(req.start)
    /\ path[Len(path)] = RoundPair(req.goal)
    /\ came[path[1]] = None

\* A path of several cells was returned for a request that rounding changed.
C6_Witness ==
  /\ pc = "done"
  /\ Len(path) >= 3
  /\ req.start # << Raw(start[1]), Raw(start[2]) >>

\* C7: when start equals goal after rounding, whatever is blocked, astar
\* returns [start] on the first pop, no neighbour having been looked at.
C7_SameCellGivesSingletonPath ==
  RoundPair(req.start) = RoundPair(req.goal) =>
    /\ pc \notin { "nopath", "beyond" }
    /\ pc = "search" => openq = SetToBag({ <<0, start>> })
    /\ pc # "request" => DOMAIN g = { start } /\ DOMAIN came = { start }
    /\ pc = "done" => path = << RoundPair(req.start) >>

\* [start] was returned for a blocked start and a goal that differs from it
\* before rounding only.
C7_Witness ==
  /\ pc = "done"
  /\ req.start # req.goal
  /\ start = goal
  /\ start \in blocked
  /\ path = << start >>

\* The tables form a tree rooted at start.
TreeOfBackLinks ==
  pc # "request" =>
    /\ DOMAIN came = DOMAIN g
    /\ \A c \in DOMAIN came : (came[c] = None) <=> (c = start)
    /\ \A c \in DOMAIN came : Climbs(c, Cardinality(DOMAIN came))

\* A back-link that is set or changed points to a cell discovered before.
LinkedToEarlierCell ==
  \A c \in DOMAIN came' :
    (c \notin DOMAIN came \/ came'[c] # came[c]) =>
      (came'[c] = None \/ came'[c] \in DOMAIN came)

\* C8: the back-link and cost tables have the same keys, start is the only
\* cell without a predecessor, the back-links lead from every discovered cell
\* to start without a cycle, and a cell's predecessor was discovered no later
\* than the cell.
C8_BackLinksFormTree == []TreeOfBackLinks /\ [][LinkedToEarlierCell]_vars

\* The search has discovered cells three links away from start.
C8_Witness ==
  /\ pc = "search"
  /\ \E c \in DOMAIN came : g[c] >= 3 /\ ~Climbs(c, 2)

\* C9: when goal can be reached from start by one-pitch moves through cells
\* that are not blocked, astar ends and returns a path with as many steps as
\* the shortest such walk.
C9_ReachableGoalGivesShortestPath ==
  (pc # "request" /\ Dist >= 0) =>
    /\ pc \notin { "nopath", "beyond" }
    /\ pops <= CellsWithin(Dist)
    /\ pc = "done" => Len(path) = Dist + 1

\* A returned path longer than the Manhattan distance: blocked cells forced a
\* detour.
C9_Witness ==
  /\ pc = "done"
  /\ Aligned
  /\ Len(path) = Dist + 1
  /\ Dist > Manhattan

\* Each cell was pushed once and has one entry at most on the frontier.
PushedOnce ==
  /\ \A c \in DOMAIN npush : npush[c] = 1
  /\ \A e \in BagToSet(openq) : CopiesIn(e, openq) = 1
  /\ \A e1, e2 \in BagToSet(openq) : e1[2] = e2[2] => e1 = e2

\* The cost and the back-link of a discovered cell stay as they are.
TablesKeepEntries ==
  \A c \in DOMAIN g : c \in DOMAIN g' /\ g'[c] = g[c] /\ came'[c] = came[c]

\* C10: no cell is pushed on the frontier more than once, the frontier never
\* holds two entries for a cell, and the cost and back-link of a cell never
\* change once set.
C10_NoCellPushedTwice == []PushedOnce /\ [][TablesKeepEntries]_vars

\* A cell with two discovered neighbours one step closer to start has been
\* looked at from both, and the search went on.
C10_Witness ==
  /\ pc = "search"
  /\ \E c \in DOMAIN g :
       /\ g[c] = 2
       /\ Cardinality({ n \in Adjacent(c) \cap DOMAIN g :
                          g[n] = 1 /\ n \notin FrontierCells }) = 2
====
